---- MODULE Spec2Model ----
(***************************************************************************)
(* Phi-Chain consensus engine (src/phi/consensus/phi_validator.py) and its  *)
(* arithmetic library (src/core/fibonacci_logic.py) as a state machine.     *)
(*                                                                         *)
(* Representation choices                                                  *)
(*  - an address is a natural number: its rank in the lexicographic order  *)
(*    of the address strings, so that "sorted by address" is "sorted by    *)
(*    number";                                                             *)
(*  - the dict `validators` is the sequence of its values in insertion     *)
(*    order, which is the order Python iterates a dict in;                 *)
(*  - an Optional value is a sequence of length at most one (None == <<>>);*)
(*  - a dict with optional keys is a function whose DOMAIN is the set of   *)
(*    keys that are present;                                               *)
(*  - a Decimal that the engine only multiplies, adds and compares is an   *)
(*    exact reduced fraction <<numerator, denominator>>;                   *)
(*  - the Decimal quotient and product of fibonacci_distribution are       *)
(*    computed digit by digit with the context precision of the code and   *)
(*    its rounding mode (ROUND_HALF_EVEN).                                 *)
(***************************************************************************)
EXTENDS Integers, Sequences, FiniteSets, TLC

(***************************************************************************)
(* Input sets and bounds                                                   *)
(***************************************************************************)
Addresses == {1, 2}
MaxRound == 1
MaxTime == 1
MaxTotal == 20
MaxCount == 5

None == <<>>
Some(x) == <<x>>

(***************************************************************************)
(* Exact fractions                                                         *)
(***************************************************************************)
RECURSIVE GCD(_, _)
GCD(a, b) == IF b = 0 THEN a ELSE GCD(b, a % b)

Rat(n, d) == LET g == GCD(n, d) IN <<n \div g, d \div g>>

\* A Decimal of the engine has 50 digits; a fraction of the model has the
\* integers of TLC.  ROutOfRange stands for every positive value whose
\* fraction does not fit (the genesis stakes times their weights): the engine
\* only tests such a value against zero.
MaxInt == (2^30 - 1) * 2 + 1
ROutOfRange == <<1, 0>>
Fits(a, b) == a = 0 \/ b <= MaxInt \div a

\* (the arguments are named once, so that TLC evaluates each a single time)
RMul(x, y) ==
    LET p == x
        q == y
    IN IF p = ROutOfRange \/ q = ROutOfRange
       THEN (IF p[1] = 0 \/ q[1] = 0 THEN <<0, 1>> ELSE ROutOfRange)
       ELSE LET g1 == GCD(p[1], q[2])
                g2 == GCD(q[1], p[2])
                a == p[1] \div g1
                b == q[1] \div g2
                c == p[2] \div g2
                d == q[2] \div g1
            IN IF Fits(a, b) /\ Fits(c, d) THEN Rat(a * b, c * d)
               ELSE ROutOfRange
RAdd(x, y) ==
    LET p == x
        q == y
    IN IF p = ROutOfRange \/ q = ROutOfRange THEN ROutOfRange
       ELSE LET g == GCD(p[2], q[2])
                m == p[2] \div g
                n == q[2] \div g
            IN IF Fits(m, q[2]) /\ Fits(p[1], n) /\ Fits(q[1], m)
                  /\ p[1] * n <= MaxInt - q[1] * m
               THEN Rat(p[1] * n + q[1] * m, m * q[2])
               ELSE ROutOfRange
RLe(x, y) == x[1] * y[2] <= y[1] * x[2]
RMin(x, y) == IF RLe(y, x) /\ ~RLe(x, y) THEN y ELSE x
RECURSIVE RPow(_, _)
RPow(x, k) == IF k = 0 THEN <<1, 1>> ELSE RMul(x, RPow(x, k - 1))
RZero == <<0, 1>>
ROne == <<1, 1>>

(***************************************************************************)
(* PhiMath                                                                 *)
(***************************************************************************)
\* golden_ratio(10) is 1.6180339887 in the code.  The engine uses it only as
\* the base of weight and golden_scaling, whose sole observable effect is the
\* test total_priority == 0 in select_leader; the model keeps one fractional
\* digit (1.6 = 8/5) so that the products stay inside TLC's integers.
golden_ratio == Rat(16, 10)

RECURSIVE fibonacci_loop(_, _, _, _)
fibonacci_loop(a, b, i, n) ==
    IF i > n THEN b ELSE fibonacci_loop(b, a + b, i + 1, n)

fibonacci(n) ==
    IF n <= 0 THEN 0
    ELSE IF n = 1 THEN 1
    ELSE fibonacci_loop(0, 1, 2, n)

RECURSIVE fibonacci_sequence(_, _)
fibonacci_sequence(start, count) ==
    IF count <= 0 THEN <<>>
    ELSE <<fibonacci(start)>> \o fibonacci_sequence(start + 1, count - 1)

RECURSIVE sum(_)
sum(s) == IF s = <<>> THEN 0 ELSE Head(s) + sum(Tail(s))

(***************************************************************************)
(* Decimal arithmetic of fibonacci_distribution, at the context precision   *)
(* getcontext().prec = 50 with ROUND_HALF_EVEN.  A non-negative Decimal is  *)
(* [int |-> integer part, frac |-> digits after the decimal point].         *)
(***************************************************************************)
Prec == 50

RECURSIVE PowMod(_, _)
\* 10^n modulo b
PowMod(n, b) ==
    IF n = 0 THEN 1 % b
    ELSE LET h == PowMod(n \div 2, b)
             q == (h * h) % b
         IN IF n % 2 = 0 THEN q ELSE (q * 10) % b

\* the remainder of the long division r / b after n digits, 0 <= r < b
DivRem(r, b, n) == (r * PowMod(n, b)) % b

RECURSIVE DivFrac(_, _, _)
\* the first n digits after the decimal point of r / b, for 0 <= r < b:
\* the first half, then the second half from the remainder the first leaves
DivFrac(r, b, n) ==
    IF n = 0 THEN <<>>
    ELSE IF n = 1 THEN <<(r * 10) \div b>>
    ELSE LET h == n \div 2
             first == r
             second == DivRem(first, b, h)
         IN DivFrac(first, b, h) \o DivFrac(second, b, n - h)

LeadingZeros(s) ==
    LET d == s
    IN IF \A i \in 1..Len(d) : d[i] = 0 THEN Len(d)
       ELSE (CHOOSE i \in 1..Len(d) :
                d[i] # 0 /\ \A j \in 1..(i - 1) : d[j] = 0) - 1

RECURSIVE NumDigits(_)
NumDigits(n) == IF n = 0 THEN 0 ELSE 1 + NumDigits(n \div 10)

RECURSIVE MulAdd(_, _, _)
\* digits s times the natural number n plus c units in the last place:
\* <<carry out, digits>>.  The right half is done first and its carry goes
\* into the left half; the test on the carry makes TLC finish the right half
\* before it enters the left one (it keeps the evaluation stack shallow).
MulAdd(s, n, c) ==
    LET d == s
    IN IF d = <<>> THEN <<c, <<>>>>
       ELSE IF Len(d) = 1
       THEN LET v == d[1] * n + c IN <<v \div 10, <<v % 10>>>>
       ELSE LET h == Len(d) \div 2
                upper == SubSeq(d, 1, h)
                lower == SubSeq(d, h + 1, Len(d))
                right == MulAdd(lower, n, c)
                carry == right[1]
                left == MulAdd(upper, n, carry)
            IN IF carry >= 0 THEN <<left[1], left[2] \o right[2]>> ELSE <<>>

\* add one unit in the last place: <<carry out, digits>>
IncFrac(s) == MulAdd(s, 1, 1)

\* digits times a natural number: <<carry out, digits>>
MulFrac(s, n) == MulAdd(s, n, 0)

\* the number of fraction digits a coefficient of Prec digits keeps
KeptDigits(int, frac) ==
    IF int > 0 THEN Prec - NumDigits(int) ELSE LeadingZeros(frac) + Prec

\* round to Prec significant digits, half to even; sticky says that the
\* value has non-zero digits beyond frac
DecRound(int, frac, sticky) ==
    LET d == frac
        keep == KeptDigits(int, d)
    IN IF Len(d) <= keep THEN [int |-> int, frac |-> d]
       ELSE LET kept == SubSeq(d, 1, keep)
                guard == d[keep + 1]
                rest == sticky \/ \E i \in (keep + 2)..Len(d) : d[i] # 0
                lastd == IF keep = 0 THEN int % 10 ELSE d[keep]
                up == guard > 5 \/ (guard = 5 /\ (rest \/ lastd % 2 = 1))
                inc == IncFrac(kept)
            IN IF up THEN [int |-> int + inc[1], frac |-> inc[2]]
               ELSE [int |-> int, frac |-> kept]

\* Decimal(a) / Decimal(b)
DecDiv(a, b) ==
    LET int == a \div b
        r == a % b
        leading == DivFrac(r, b, Prec)
        keep == KeptDigits(int, leading)
        digits == DivFrac(r, b, keep + 1)
    IN DecRound(int, digits, DivRem(r, b, keep + 1) # 0)

\* x * Decimal(n)
DecMul(x, n) ==
    LET m == MulFrac(x.frac, n)
        product == m[2]
    IN DecRound(x.int * n + m[1], product, FALSE)

\* int(x)
DecToInt(x) == x.int

\* fibonacci_distribution without the final rewards[0] += remaining_reward
fibonacci_distribution_no_remainder(total_reward, count) ==
    IF count <= 0 THEN <<>>
    ELSE LET fib_numbers == fibonacci_sequence(1, count)
             total_fib == sum(fib_numbers)
         IN [i \in 1..count |->
                DecToInt(DecMul(DecDiv(fib_numbers[i], total_fib), total_reward))]

fibonacci_distribution(total_reward, count) ==
    IF count <= 0 THEN <<>>
    ELSE LET fib_numbers == fibonacci_sequence(1, count)
             total_fib == sum(fib_numbers)
         IN IF total_fib = 0 THEN [i \in 1..count |-> 0]
            ELSE LET share(i) == DecDiv(fib_numbers[i], total_fib)
                     reward_amount(i) == DecToInt(DecMul(share(i), total_reward))
                     rewards == [i \in 1..count |-> reward_amount(i)]
                     remaining_reward == total_reward - sum(rewards)
                 IN IF rewards # <<>>
                    THEN [rewards EXCEPT ![1] = @ + remaining_reward]
                    ELSE rewards

(***************************************************************************)
(* State                                                                   *)
(***************************************************************************)
\* PhiConsensus: validators, current_leader_index, round_number.
\* Blockchain: chain, current_transactions (its consensus_engine is the
\* PhiConsensus state).  last is the last call, its arguments and its result.
VARIABLES validators, current_leader_index, round_number, last,
          chain, current_transactions

vars == <<validators, current_leader_index, round_number, last,
          chain, current_transactions>>

\* the fields of a Blockchain outside its consensus engine
ledger_vars == <<chain, current_transactions>>

HasAddress(vs, address) == \E i \in 1..Len(vs) : vs[i].address = address
IndexOf(vs, address) == CHOOSE i \in 1..Len(vs) : vs[i].address = address
Lookup(vs, address) == vs[IndexOf(vs, address)]

Init ==
    /\ validators = <<>>
    /\ current_leader_index = 0
    /\ round_number = 0
    /\ last = [op |-> "__init__", args |-> <<>>, ret |-> None]
    /\ chain = <<>>
    /\ current_transactions = <<>>

(***************************************************************************)
(* add_validator                                                           *)
(***************************************************************************)
\* add_validator without the check for an existing address: the dict
\* assignment replaces the entry of a registered address
add_validator_overwrite(address, public_key, stake, fibonacci_index) ==
    /\ LET index == IF fibonacci_index = None THEN Len(validators)
                    ELSE fibonacci_index[1]
           validator == [address |-> address,
                         public_key |-> public_key,
                         stake |-> stake,
                         weight |-> RPow(golden_ratio, index),
                         fibonacci_index |-> index,
                         is_active |-> TRUE,
                         last_validated |-> 0,
                         performance_score |-> ROne]
       IN validators' =
            IF HasAddress(validators, address)
            THEN [validators EXCEPT ![IndexOf(validators, address)] = validator]
            ELSE Append(validators, validator)
    /\ last' = [op |-> "add_validator",
                args |-> <<address, public_key, stake, fibonacci_index>>,
                ret |-> TRUE]
    /\ UNCHANGED <<current_leader_index, round_number>>
    /\ UNCHANGED ledger_vars

add_validator(address, public_key, stake, fibonacci_index) ==
    /\ IF HasAddress(validators, address)
       THEN /\ validators' = validators
            /\ last' = [op |-> "add_validator",
                        args |-> <<address, public_key, stake, fibonacci_index>>,
                        ret |-> FALSE]
       ELSE LET index == IF fibonacci_index = None THEN Len(validators)
                         ELSE fibonacci_index[1]
                weight == RPow(golden_ratio, index)
                validator == [address |-> address,
                              public_key |-> public_key,
                              stake |-> stake,
                              weight |-> weight,
                              fibonacci_index |-> index,
                              is_active |-> TRUE,
                              last_validated |-> 0,
                              performance_score |-> ROne]
            IN /\ validators' = Append(validators, validator)
               /\ last' = [op |-> "add_validator",
                           args |-> <<address, public_key, stake, fibonacci_index>>,
                           ret |-> TRUE]
    /\ UNCHANGED <<current_leader_index, round_number>>
    /\ UNCHANGED ledger_vars

(***************************************************************************)
(* Validator.get_priority_score                                            *)
(***************************************************************************)
get_priority_score(self, block_height) ==
    LET fib_number == fibonacci(block_height % 100)
        phi == golden_ratio
        base_priority == RMul(RMul(Rat(self.stake, 1), self.weight),
                              self.performance_score)
        modulation == Rat(fib_number, 1000)
        golden_scaling == RPow(phi, self.fibonacci_index % 10)
    IN RMul(RMul(base_priority, modulation), golden_scaling)

\* [v for v in self.validators.values() if v.is_active]
ActiveValidators(vs) == SelectSeq(vs, LAMBDA v : v.is_active)

RECURSIVE total_priority_loop(_, _)
\* total_priority after the for loop over active_validators
total_priority_loop(active_validators, block_height) ==
    IF active_validators = <<>> THEN RZero
    ELSE LET rest == total_priority_loop(SubSeq(active_validators, 1,
                                                Len(active_validators) - 1),
                                         block_height)
             priority == get_priority_score(
                             active_validators[Len(active_validators)],
                             block_height)
         IN RAdd(rest, priority)

(***************************************************************************)
(* select_leader                                                           *)
(***************************************************************************)
\* what select_leader(block_height) does on the registry vs: the value it
\* returns, whether it reaches the update of the leader index and the round
\* number, and the selection index it stores there
leader_selection(vs, block_height) ==
    LET active_validators == ActiveValidators(vs)
        total_priority == total_priority_loop(active_validators, block_height)
        fib_number == fibonacci(block_height % Len(active_validators))
        selection_index == fib_number % Len(active_validators)
        selected_validator == active_validators[selection_index + 1]
    IN IF vs = <<>> \/ active_validators = <<>>
       THEN [ret |-> None, updates |-> FALSE, index |-> 0]
       ELSE IF total_priority = RZero
       THEN [ret |-> Some(active_validators[1]), updates |-> FALSE, index |-> 0]
       ELSE [ret |-> Some(selected_validator), updates |-> TRUE,
             index |-> selection_index]

select_leader(block_height) ==
    /\ round_number < MaxRound
    /\ LET selection == leader_selection(validators, block_height)
       IN /\ current_leader_index' =
                IF selection.updates THEN selection.index ELSE current_leader_index
          /\ round_number' =
                IF selection.updates THEN round_number + 1 ELSE round_number
          /\ last' = [op |-> "select_leader", args |-> <<block_height>>,
                      ret |-> selection.ret]
    /\ UNCHANGED validators
    /\ UNCHANGED ledger_vars

(***************************************************************************)
(* validate_block                                                          *)
(***************************************************************************)
\* dict.get(key, default) and dict.get(key)
Get(d, key, default) == IF key \in DOMAIN d THEN d[key] ELSE default
GetOpt(d, key) == IF key \in DOMAIN d THEN Some(d[key]) ELSE None

\* _verify_fibonacci_proof without the check of fibonacci_index
verify_fibonacci_proof_number_only(math_proof, block_data) ==
    LET block_height == Get(block_data, "height", 0)
        expected_fib == fibonacci(block_height % 1000)
    IN GetOpt(math_proof, "fibonacci_number") = Some(expected_fib)

verify_fibonacci_proof(math_proof, block_data) ==
    LET block_height == Get(block_data, "height", 0)
        expected_fib == fibonacci(block_height % 1000)
        proof_fib == GetOpt(math_proof, "fibonacci_number")
        proof_index == GetOpt(math_proof, "fibonacci_index")
        expected_index == block_height % 1000
    IN IF proof_fib # Some(expected_fib) THEN FALSE
       ELSE IF proof_index # Some(expected_index) THEN FALSE
       ELSE TRUE

HashLength == 64

verify_golden_hash(block_data) ==
    LET golden_hash == Get(Get(block_data, "header", <<>>), "golden_ratio_hash", <<>>)
    IN IF golden_hash = <<>> \/ Len(golden_hash) # HashLength THEN FALSE
       ELSE TRUE

verify_signature(block_data, public_key) ==
    LET signature == Get(block_data, "signature", "")
    IN IF signature = "" THEN TRUE ELSE TRUE

\* _update_validator_performance with a larger step and no cap at 1.0
update_validator_performance_uncapped(vs, address, success, now) ==
    IF ~HasAddress(vs, address) THEN vs
    ELSE LET i == IndexOf(vs, address)
             validator == vs[i]
             new_score == RAdd(RMul(validator.performance_score, Rat(95, 100)),
                               Rat(10, 100))
         IN [vs EXCEPT ![i] = [validator EXCEPT !.performance_score = new_score,
                                                 !.last_validated = now]]

\* the registry after _update_validator_performance(address, success) at time now
update_validator_performance(vs, address, success, now) ==
    IF ~HasAddress(vs, address) THEN vs
    ELSE LET i == IndexOf(vs, address)
             validator == vs[i]
             new_score == RAdd(RMul(validator.performance_score, Rat(95, 100)),
                               Rat(5, 100))
             score == IF success THEN RMin(new_score, ROne)
                      ELSE RMul(validator.performance_score, Rat(9, 10))
         IN [vs EXCEPT ![i] = [validator EXCEPT !.performance_score = score,
                                                 !.last_validated = now]]

\* validate_block that also records a failed proposal: the decay branch of
\* _update_validator_performance is applied to a registered proposer
validate_block_penalising(block_data, proposer_address, now) ==
    LET proposer == Lookup(validators, proposer_address)
        math_proof == Get(block_data, "mathematical_proof", <<>>)
        ok == /\ HasAddress(validators, proposer_address)
              /\ proposer.is_active
              /\ verify_fibonacci_proof(math_proof, block_data)
              /\ verify_golden_hash(block_data)
              /\ verify_signature(block_data, proposer.public_key)
    IN /\ validators' = update_validator_performance(validators,
                                                     proposer_address, ok, now)
       /\ last' = [op |-> "validate_block",
                   args |-> <<block_data, proposer_address>>,
                   ret |-> ok]
       /\ UNCHANGED <<current_leader_index, round_number>>
       /\ UNCHANGED ledger_vars

validate_block(block_data, proposer_address, now) ==
    LET proposer == Lookup(validators, proposer_address)
        math_proof == Get(block_data, "mathematical_proof", <<>>)
        ok == /\ HasAddress(validators, proposer_address)
              /\ proposer.is_active
              /\ verify_fibonacci_proof(math_proof, block_data)
              /\ verify_golden_hash(block_data)
              /\ verify_signature(block_data, proposer.public_key)
    IN /\ validators' = IF ok
                        THEN update_validator_performance(validators,
                                                          proposer_address, TRUE, now)
                        ELSE validators
       /\ last' = [op |-> "validate_block",
                   args |-> <<block_data, proposer_address>>,
                   ret |-> ok]
       /\ UNCHANGED <<current_leader_index, round_number>>
       /\ UNCHANGED ledger_vars

\* what validate_block(block_data, proposer_address) returns on the registry
\* vs and the registry it leaves, the clock reading validated_at
block_validation(vs, block_data, proposer_address, validated_at) ==
    LET proposer == Lookup(vs, proposer_address)
        math_proof == Get(block_data, "mathematical_proof", <<>>)
        ok == /\ HasAddress(vs, proposer_address)
              /\ proposer.is_active
              /\ verify_fibonacci_proof(math_proof, block_data)
              /\ verify_golden_hash(block_data)
              /\ verify_signature(block_data, proposer.public_key)
    IN [ret |-> ok,
        validators |-> IF ok
                       THEN update_validator_performance(vs, proposer_address,
                                                         TRUE, validated_at)
                       ELSE vs]

(***************************************************************************)
(* get_validator_rotation_schedule                                         *)
(***************************************************************************)
rotation_schedule(vs, blocks_ahead) ==
    LET active_validators == ActiveValidators(vs)
        entry(block_offset) ==
            LET fib_num == fibonacci(block_offset % 20)
                validator_index == fib_num % Len(active_validators)
            IN <<block_offset, active_validators[validator_index + 1].address>>
    IN IF active_validators = <<>> THEN <<>>
       ELSE [k \in 1..blocks_ahead |-> entry(k - 1)]

get_validator_rotation_schedule(blocks_ahead) ==
    /\ last' = [op |-> "get_validator_rotation_schedule",
                args |-> <<blocks_ahead>>,
                ret |-> rotation_schedule(validators, blocks_ahead)]
    /\ UNCHANGED <<validators, current_leader_index, round_number>>
    /\ UNCHANGED ledger_vars

(***************************************************************************)
(* calculate_rewards                                                       *)
(***************************************************************************)
\* the dict rewards: a function from the addresses that have an entry
rewards_of(vs, total_reward) ==
    LET active_validators == ActiveValidators(vs)
        amounts == fibonacci_distribution(total_reward, Len(active_validators))
        position(address) ==
            CHOOSE i \in 1..Len(active_validators) :
                active_validators[i].address = address
    IN IF active_validators = <<>> THEN <<>>
       ELSE [address \in {active_validators[i].address :
                              i \in 1..Len(active_validators)} |->
                IF position(address) - 1 < Len(amounts)
                THEN amounts[position(address)]
                ELSE 0]

\* calculate_rewards that also credits each reward to the validator's stake
calculate_rewards_compounding(block_height, total_reward) ==
    LET rewards == rewards_of(validators, total_reward)
    IN /\ validators' =
            [i \in 1..Len(validators) |->
                IF validators[i].address \in DOMAIN rewards
                THEN [validators[i] EXCEPT !.stake = @ + rewards[validators[i].address]]
                ELSE validators[i]]
       /\ last' = [op |-> "calculate_rewards",
                   args |-> <<block_height, total_reward>>,
                   ret |-> rewards]
       /\ UNCHANGED <<current_leader_index, round_number>>
       /\ UNCHANGED ledger_vars

calculate_rewards(block_height, total_reward) ==
    /\ last' = [op |-> "calculate_rewards",
                args |-> <<block_height, total_reward>>,
                ret |-> rewards_of(validators, total_reward)]
    /\ UNCHANGED <<validators, current_leader_index, round_number>>
    /\ UNCHANGED ledger_vars

(***************************************************************************)
(* generate_consensus_report                                               *)
(***************************************************************************)
network_id == "phi-mainnet-1"

RECURSIVE weight_sum(_)
\* sum(float(v.weight) for v in ...) over a list of validators
weight_sum(vs) ==
    IF vs = <<>> THEN RZero ELSE RAdd(Head(vs).weight, weight_sum(Tail(vs)))

RECURSIVE performance_sum(_)
\* sum(float(v.performance_score) for v in ...) over a list of validators
performance_sum(vs) ==
    IF vs = <<>> THEN RZero
    ELSE RAdd(Head(vs).performance_score, performance_sum(Tail(vs)))

\* the report dict.  The averages are floats in the code; the model keeps
\* them as the fractions they are computed from.
consensus_report(vs, round, leader_index) ==
    LET active == ActiveValidators(vs)
        active_count == Len(active)
        total_stake == sum([i \in 1..active_count |-> active[i].stake])
        divisor == IF active_count > 1 THEN active_count ELSE 1
        avg_weight == RMul(weight_sum(active), Rat(1, divisor))
        avg_performance == RMul(performance_sum(active), Rat(1, divisor))
    IN [network_id |-> network_id,
        total_validators |-> Len(vs),
        active_validators |-> active_count,
        total_stake |-> total_stake,
        current_round |-> round,
        current_leader |-> leader_index,
        mathematical_metrics |->
            [average_weight |-> avg_weight,
             average_performance |-> avg_performance,
             golden_ratio |-> "1.6180339887",
             fibonacci_distribution |->
                 fibonacci_sequence(0, IF active_count < 10 THEN active_count ELSE 10)],
        validators |->
            [i \in 1..Len(vs) |->
                [address |-> vs[i].address,
                 stake |-> vs[i].stake,
                 weight |-> vs[i].weight,
                 performance |-> vs[i].performance_score,
                 is_active |-> vs[i].is_active]]]

generate_consensus_report ==
    /\ last' = [op |-> "generate_consensus_report",
                args |-> <<>>,
                ret |-> consensus_report(validators, round_number,
                                         current_leader_index)]
    /\ UNCHANGED <<validators, current_leader_index, round_number>>
    /\ UNCHANGED ledger_vars

(***************************************************************************)
(* deactivate / reactivate (spec.md 4.2): toggle is_active                 *)
(***************************************************************************)
set_active(address, active) ==
    /\ validators' =
         IF HasAddress(validators, address)
         THEN [validators EXCEPT ![IndexOf(validators, address)].is_active = active]
         ELSE validators
    /\ last' = [op |-> IF active THEN "reactivate" ELSE "deactivate",
                args |-> <<address>>,
                ret |-> HasAddress(validators, address)]
    /\ UNCHANGED <<current_leader_index, round_number>>
    /\ UNCHANGED ledger_vars

deactivate(address) == set_active(address, FALSE)
reactivate(address) == set_active(address, TRUE)

(***************************************************************************)
(* Inputs                                                                  *)
(***************************************************************************)
\* (public_key, stake, fibonacci_index) of a registration
Registrations == {<<"pk0", 1, None>>, <<"pk1", 0, Some(1)>>}
Heights == {1, 2, 100}
Rewards == {7}
BlocksAhead == {0, 3, 22}
Times == 1..MaxTime

GoodHash == [i \in 1..HashLength |-> "a"]
ShortHash == [i \in 1..(HashLength - 1) |-> "a"]

\* the dict with the keys whose value is present
Proof(number, index) ==
    [key \in (IF number = None THEN {} ELSE {"fibonacci_number"})
             \cup (IF index = None THEN {} ELSE {"fibonacci_index"}) |->
        IF key = "fibonacci_number" THEN number[1] ELSE index[1]]

\* a well-formed proposal for a height
GoodBlock(height) ==
    [height |-> height,
     mathematical_proof |-> Proof(Some(fibonacci(height % 1000)),
                                  Some(height % 1000)),
     header |-> [golden_ratio_hash |-> GoodHash],
     signature |-> "test_signature"]

Blocks ==
    {GoodBlock(1), GoodBlock(1002),
     \* wrong or missing fibonacci_number
     [GoodBlock(1) EXCEPT !.mathematical_proof = Proof(Some(2), Some(1))],
     [GoodBlock(1002) EXCEPT !.mathematical_proof = Proof(None, Some(2))],
     \* wrong or missing fibonacci_index
     [GoodBlock(1002) EXCEPT !.mathematical_proof = Proof(Some(1), Some(1002))],
     [GoodBlock(1) EXCEPT !.mathematical_proof = Proof(Some(1), None)],
     \* malformed hash
     [GoodBlock(1) EXCEPT !.header = [golden_ratio_hash |-> ShortHash]],
     [GoodBlock(1) EXCEPT !.header = [golden_ratio_hash |-> <<>>]]}

\* the operations of a PhiConsensus engine used on its own
Next ==
    \/ \E a \in Addresses, r \in Registrations :
          add_validator(a, r[1], r[2], r[3])
    \/ \E h \in Heights : select_leader(h)
    \/ \E b \in Blocks, a \in Addresses, t \in Times : validate_block(b, a, t)
    \/ \E n \in BlocksAhead : get_validator_rotation_schedule(n)
    \/ \E r \in Rewards : calculate_rewards(1, r)
    \/ generate_consensus_report
    \/ \E a \in Addresses : deactivate(a)
    \/ \E a \in Addresses : reactivate(a)

Spec == Init /\ [][Next]_vars

(***************************************************************************)
(* PhiMath.fibonacci_distribution on its own: every call with a total in   *)
(* 0..MaxTotal and a count in -1..MaxCount                                 *)
(***************************************************************************)
Totals == 0..MaxTotal
Counts == (-1)..MaxCount

InitDistribution ==
    /\ validators = <<>>
    /\ current_leader_index = 0
    /\ round_number = 0
    /\ last \in {[op |-> "input", args |-> <<t, c>>, ret |-> None] :
                    t \in Totals, c \in Counts}
    /\ chain = <<>>
    /\ current_transactions = <<>>

call_fibonacci_distribution ==
    /\ last.op = "input"
    /\ last' = [op |-> "fibonacci_distribution",
                args |-> last.args,
                ret |-> fibonacci_distribution(last.args[1], last.args[2])]
    /\ UNCHANGED <<validators, current_leader_index, round_number>>
    /\ UNCHANGED ledger_vars

NextDistribution == call_fibonacci_distribution

SpecDistribution == InitDistribution /\ [][NextDistribution]_vars

(***************************************************************************)
(* Blockchain (phi/blockchain.py): the chain, the pending transactions and *)
(* the consensus engine the chain validates its blocks with                *)
(***************************************************************************)
MaxChain == 2
MaxPending == 2

genesis_stakes == <<1000000, 1618033, 2618033, 4236066, 6854099, 11090165>>

\* f"phi_genesis_validator_{i}" and f"genesis_pub_key_{i:02x}" for i in 0..5
genesis_address(i) ==
    <<"phi_genesis_validator_0", "phi_genesis_validator_1",
      "phi_genesis_validator_2", "phi_genesis_validator_3",
      "phi_genesis_validator_4", "phi_genesis_validator_5">>[i + 1]
genesis_public_key(i) ==
    <<"genesis_pub_key_00", "genesis_pub_key_01", "genesis_pub_key_02",
      "genesis_pub_key_03", "genesis_pub_key_04", "genesis_pub_key_05">>[i + 1]

\* the registry after consensus_engine.add_validator(address, public_key,
\* stake, fibonacci_index) with a fibonacci_index given
registry_after_add(vs, address, public_key, stake, fibonacci_index) ==
    IF HasAddress(vs, address) THEN vs
    ELSE Append(vs, [address |-> address,
                     public_key |-> public_key,
                     stake |-> stake,
                     weight |-> RPow(golden_ratio, fibonacci_index),
                     fibonacci_index |-> fibonacci_index,
                     is_active |-> TRUE,
                     last_validated |-> 0,
                     performance_score |-> ROne])

RECURSIVE genesis_loop(_, _)
\* the for loop of _initialize_genesis_validators from index i on
genesis_loop(vs, i) ==
    IF i >= Len(genesis_stakes) THEN vs
    ELSE genesis_loop(registry_after_add(vs, genesis_address(i),
                                         genesis_public_key(i),
                                         genesis_stakes[i + 1], i),
                      i + 1)

initialize_genesis_validators(vs) == genesis_loop(vs, 0)

\* the dict create_block hands to the engine
validation_data(block) ==
    [height |-> block.index,
     mathematical_proof |->
        [fibonacci_number |-> fibonacci(block.index % 1000),
         fibonacci_index |-> block.index % 1000],
     header |-> [golden_ratio_hash |-> [i \in 1..64 |-> "a"]],
     signature |-> "test_signature"]

\* create_block(proof, previous_hash, validator_address) on a Blockchain with
\* the given chain, pending transactions and registry: the fields it leaves
\* and the value it returns.  time.time() reads now for the block and
\* validated_at in the engine.
block_creation(ch, pending, vs, proof, previous_hash, validator_address, now, validated_at) ==
    LET block == [index |-> Len(ch) + 1,
                  timestamp |-> now,
                  transactions |-> pending,
                  proof |-> proof,
                  previous_hash |-> previous_hash,
                  validator_address |-> validator_address]
        validation == block_validation(vs, validation_data(block),
                                       validator_address, validated_at)
    IN [chain |-> IF validation.ret THEN Append(ch, block) ELSE ch,
        current_transactions |-> <<>>,
        validators |-> validation.validators,
        ret |-> IF validation.ret THEN Some(block) ELSE None]

create_block(proof, previous_hash, validator_address, now, validated_at) ==
    /\ Len(chain) < MaxChain
    /\ LET created == block_creation(chain, current_transactions, validators,
                                     proof, previous_hash, validator_address,
                                     now, validated_at)
       IN /\ chain' = created.chain
          /\ current_transactions' = created.current_transactions
          /\ validators' = created.validators
          /\ last' = [op |-> "create_block",
                      args |-> <<proof, previous_hash, validator_address>>,
                      ret |-> created.ret]
    /\ UNCHANGED <<current_leader_index, round_number>>

\* the property last_block
last_block(ch) == IF ch # <<>> THEN Some(ch[Len(ch)]) ELSE None

\* new_transaction appends the transaction and then reads
\* self.last_block.index: on an empty chain last_block is None and the read
\* raises AttributeError, the transaction staying in the list
new_transaction(sender, recipient, amount, now) ==
    /\ Len(current_transactions) < MaxPending
    /\ current_transactions' =
         Append(current_transactions,
                [sender |-> sender, recipient |-> recipient,
                 amount |-> amount, timestamp |-> now])
    /\ last' = [op |-> "new_transaction",
                args |-> <<sender, recipient, amount>>,
                ret |-> IF last_block(chain) = None THEN None
                        ELSE Some(last_block(chain)[1].index + 1),
                raises |-> IF last_block(chain) = None
                           THEN Some("AttributeError") ELSE None]
    /\ UNCHANGED <<validators, current_leader_index, round_number, chain>>

get_next_leader ==
    /\ round_number < MaxRound
    /\ LET next_height == Len(chain) + 1
           leader == leader_selection(validators, next_height)
       IN /\ current_leader_index' =
                IF leader.updates THEN leader.index ELSE current_leader_index
          /\ round_number' =
                IF leader.updates THEN round_number + 1 ELSE round_number
          /\ last' = [op |-> "get_next_leader", args |-> <<>>,
                      ret |-> IF leader.ret # None
                              THEN Some(leader.ret[1].address) ELSE None]
    /\ UNCHANGED <<validators, chain, current_transactions>>

\* Blockchain.__init__: empty fields and a new engine, then the genesis
\* create_block, then the genesis validators
InitBlockchain ==
    \E now \in Times :
      \E validated_at \in {t \in Times : now <= t} :
        LET genesis == block_creation(<<>>, <<>>, <<>>, fibonacci(0), "1",
                                      genesis_address(0), now, validated_at)
        IN /\ chain = genesis.chain
           /\ current_transactions = genesis.current_transactions
           /\ validators = initialize_genesis_validators(genesis.validators)
           /\ current_leader_index = 0
           /\ round_number = 0
           /\ last = [op |-> "Blockchain.__init__", args |-> <<>>, ret |-> None]

Proposers == {genesis_address(0), genesis_address(1), "phi_unregistered"}
Proofs == {12345}
PreviousHashes == {"1", "previous_hash"}
Senders == {"Alice"}
Recipients == {"Bob"}
Amounts == {1, 2}

NextBlockchain ==
    \/ \E proof \in Proofs, h \in PreviousHashes, a \in Proposers,
          now \in Times :
          \E validated_at \in {t \in Times : now <= t} :
              create_block(proof, h, a, now, validated_at)
    \/ \E sender \in Senders, recipient \in Recipients, amount \in Amounts,
          now \in Times :
          new_transaction(sender, recipient, amount, now)
    \/ get_next_leader

SpecBlockchain == InitBlockchain /\ [][NextBlockchain]_vars

(***************************************************************************)
(* Properties                                                              *)
(***************************************************************************)
Min(S) == CHOOSE x \in S : \A y \in S : x <= y

RECURSIVE SortedByAddress(_, _)
\* the validators of vs whose address is in S, by address ascending
SortedByAddress(vs, S) ==
    IF S = {} THEN <<>>
    ELSE <<Lookup(vs, Min(S))>> \o SortedByAddress(vs, S \ {Min(S)})

\* spec.md 4.2: the active validators sorted by address ascending
canonical_active_list(vs) ==
    SortedByAddress(vs, {vs[i].address : i \in {j \in 1..Len(vs) : vs[j].is_active}})

\* the registries that hold the validators of vs in another insertion order
Reorderings(vs) ==
    {[i \in 1..Len(vs) |-> vs[p[i]]] :
        p \in {q \in [1..Len(vs) -> 1..Len(vs)] :
                 \A i, j \in 1..Len(vs) : q[i] = q[j] => i = j}}

Registered(address) == HasAddress(validators, address)

\* C1: for every height and every registry with N >= 1 active validators,
\* select_leader(height) returns the validator at position
\* fibonacci(height mod N) mod N of the active validators sorted by address,
\* whatever order the validators were registered in.
C1_LeaderIsCanonicalPosition ==
    last.op = "select_leader" =>
        LET canonical == canonical_active_list(validators)
            N == Len(canonical)
            height == last.args[1]
        IN N >= 1 => last.ret = Some(canonical[(fibonacci(height % N) % N) + 1])

\* C2: select_leader(height) is a function of the canonical active set and
\* the height: the leader a call returns is the leader the same call returns
\* on every registry that holds the same validators in another registration
\* order (and so on the same registry again).
C2_LeaderIndependentOfOrder ==
    last.op = "select_leader" =>
        \A other \in Reorderings(validators) :
            leader_selection(other, last.args[1]).ret = last.ret

\* C3: round_number never decreases; a select_leader call that returns a
\* leader increments it by exactly one and sets current_leader_index to the
\* position of the returned leader among the active validators, for every
\* height and every stake; a call that returns no leader changes neither.
C3_RoundCountsEveryLeader ==
    [][/\ round_number' >= round_number
       /\ last'.op = "select_leader" =>
            IF last'.ret = None
            THEN UNCHANGED <<round_number, current_leader_index>>
            ELSE /\ round_number' = round_number + 1
                 /\ ActiveValidators(validators)[current_leader_index' + 1]
                      = last'.ret[1]]_vars

\* C4: for every total >= 0 and count >= 1 the amounts returned by
\* fibonacci_distribution(total, count) number exactly count and sum to
\* exactly total; for count <= 0 the result is the empty sequence.
C4_DistributionConservesTotal ==
    last.op = "fibonacci_distribution" =>
        LET total == last.args[1]
            count == last.args[2]
        IN IF count >= 1
           THEN Len(last.ret) = count /\ sum(last.ret) = total
           ELSE last.ret = <<>>

\* C4 witness: a distribution over several slots in which truncation leaves
\* a remainder, which slot 0 receives (slots 0 and 1 have equal shares).
C4_Witness ==
    /\ last.op = "fibonacci_distribution"
    /\ last.args[2] >= 4
    /\ last.ret[1] > last.ret[2]

\* C5: calculate_rewards(height, total) over N >= 1 active validators gives
\* the validator at position i of the address-sorted active list the i-th
\* amount of fibonacci_distribution(total, N), so that the rewards sum to
\* total and the remainder goes to the smallest active address; inactive
\* validators receive no entry.
C5_RewardsInCanonicalOrder ==
    last.op = "calculate_rewards" =>
        LET canonical == canonical_active_list(validators)
            N == Len(canonical)
            amounts == fibonacci_distribution(last.args[2], N)
        IN N >= 1 =>
             /\ DOMAIN last.ret = {canonical[i].address : i \in 1..N}
             /\ \A i \in 1..N : last.ret[canonical[i].address] = amounts[i]

\* C6: validate_block returns false for every proposal whose
\* mathematical_proof.fibonacci_number differs from fibonacci(height mod 1000)
\* or whose fibonacci_index differs from height mod 1000 (a missing field
\* included), also when the proposer is registered and active and the hash
\* and the signature are well formed.
ProofMismatch(block_data) ==
    LET height == block_data.height
        math_proof == block_data.mathematical_proof
    IN \/ "fibonacci_number" \notin DOMAIN math_proof
       \/ "fibonacci_index" \notin DOMAIN math_proof
       \/ math_proof.fibonacci_number # fibonacci(height % 1000)
       \/ math_proof.fibonacci_index # height % 1000

C6_ProofMismatchRejected ==
    (last.op = "validate_block" /\ ProofMismatch(last.args[1]))
        => last.ret = FALSE

\* C6 witness: a rejected proposal of a registered, active proposer with a
\* well-formed hash, a signature and the right fibonacci_number, whose
\* fibonacci_index alone is wrong.
C6_Witness ==
    /\ last.op = "validate_block"
    /\ last.ret = FALSE
    /\ Registered(last.args[2])
    /\ Lookup(validators, last.args[2]).is_active
    /\ last.args[1].header.golden_ratio_hash = GoodHash
    /\ "signature" \in DOMAIN last.args[1]
    /\ last.args[1].height = 1002
    /\ last.args[1].mathematical_proof = Proof(Some(1), Some(1002))

\* C7: validate_block returns false whenever proposer_address is not in the
\* registry or names an inactive validator, and every validate_block call
\* that returns false leaves every validator's performance_score and
\* last_validated, round_number and current_leader_index unchanged.
C7_RejectionChangesNothing ==
    [][last'.op = "validate_block" =>
         /\ (\/ ~Registered(last'.args[2])
             \/ ~Lookup(validators, last'.args[2]).is_active)
               => last'.ret = FALSE
         /\ last'.ret = FALSE =>
              /\ Len(validators') = Len(validators)
              /\ \A i \in 1..Len(validators) :
                   /\ validators'[i].performance_score
                        = validators[i].performance_score
                   /\ validators'[i].last_validated = validators[i].last_validated
              /\ UNCHANGED <<round_number, current_leader_index>>]_vars

\* C7 witness: a well-formed proposal rejected because its proposer is
\* registered but inactive, in a registry where a validation has succeeded
\* and a leader has been selected.
C7_Witness ==
    /\ last.op = "validate_block"
    /\ last.ret = FALSE
    /\ last.args[1] = GoodBlock(1)
    /\ Registered(last.args[2])
    /\ ~Lookup(validators, last.args[2]).is_active
    /\ Lookup(validators, last.args[2]).last_validated > 0
    /\ round_number > 0

\* C8: add_validator called with an address already in the registry returns
\* false and leaves the registry unchanged: same size, and the existing
\* validator keeps its stake, public_key, weight, fibonacci_index, is_active
\* and performance_score.
C8_DuplicateAddRejected ==
    [][(last'.op = "add_validator" /\ Registered(last'.args[1])) =>
         /\ last'.ret = FALSE
         /\ Len(validators') = Len(validators)
         /\ LET old == Lookup(validators, last'.args[1])
                new == Lookup(validators', last'.args[1])
            IN /\ new.stake = old.stake
               /\ new.public_key = old.public_key
               /\ new.weight = old.weight
               /\ new.fibonacci_index = old.fibonacci_index
               /\ new.is_active = old.is_active
               /\ new.performance_score = old.performance_score]_vars

\* C8 witness: a rejected registration whose public_key, stake and
\* fibonacci_index all differ from those of the registered validator, which
\* is inactive.
C8_Witness ==
    /\ last.op = "add_validator"
    /\ last.ret = FALSE
    /\ LET existing == Lookup(validators, last.args[1])
       IN /\ existing.public_key # last.args[2]
          /\ existing.stake # last.args[3]
          /\ Some(existing.fibonacci_index) # last.args[4]
          /\ ~existing.is_active

\* every performance_score of the registry vs lies in [0, 1]
ScoresInRange(vs) ==
    \A i \in 1..Len(vs) : /\ RLe(RZero, vs[i].performance_score)
                          /\ RLe(vs[i].performance_score, ROne)

\* C9: after every successful validate_block the proposer's
\* performance_score equals min(1.0, old * 0.95 + 0.05), and in every
\* reachable state every validator's performance_score lies in [0, 1]
\* (stated on both states of every step, the first state included).
C9_ScoreUpdateAndRange ==
    [][/\ ScoresInRange(validators)
       /\ ScoresInRange(validators')
       /\ (last'.op = "validate_block" /\ last'.ret = TRUE) =>
            LET old == Lookup(validators, last'.args[2]).performance_score
                new == Lookup(validators', last'.args[2]).performance_score
            IN new = RMin(ROne, RAdd(RMul(old, Rat(95, 100)), Rat(5, 100)))]_vars

\* C9 witness: a successful validation by a proposer that had validated
\* before.
C9_Witness ==
    /\ last.op = "validate_block"
    /\ last.ret = TRUE
    /\ Len(validators) = 2
    /\ \A i \in 1..Len(validators) : validators[i].last_validated > 0

\* C10: get_validator_rotation_schedule(blocks_ahead) over N >= 1 active
\* validators returns exactly blocks_ahead entries, the entry for each
\* offset in [0, blocks_ahead) being (offset, address at position
\* fibonacci(offset mod 20) mod N of the address-sorted active list); with no
\* active validator it returns the empty schedule; the call changes no
\* registry state.
C10_ScheduleInCanonicalOrder ==
    [][last'.op = "get_validator_rotation_schedule" =>
         LET canonical == canonical_active_list(validators)
             N == Len(canonical)
             blocks_ahead == last'.args[1]
         IN /\ UNCHANGED <<validators, round_number, current_leader_index>>
            /\ IF N = 0 THEN last'.ret = <<>>
               ELSE /\ Len(last'.ret) = blocks_ahead
                    /\ \A k \in 1..blocks_ahead :
                         last'.ret[k] =
                           <<k - 1,
                             canonical[(fibonacci((k - 1) % 20) % N) + 1].address>>]_vars

\* the operations of the engine in the source; deactivate and reactivate
\* are the registry's toggles of spec.md 4.2
EngineOperations ==
    {"add_validator", "select_leader", "validate_block",
     "get_validator_rotation_schedule", "calculate_rewards",
     "generate_consensus_report"}

\* C11: over any sequence of engine operations a registered validator is
\* never removed and its address, stake, weight and fibonacci_index never
\* change; an engine operation changes a validator only in performance_score
\* and last_validated, and only for the proposer of a block that
\* validate_block accepted; select_leader, calculate_rewards,
\* get_validator_rotation_schedule and generate_consensus_report change no
\* validator.
C11_ValidatorFrame ==
    [][/\ Len(validators') >= Len(validators)
       /\ \A i \in 1..Len(validators) :
            LET v == validators[i]
                w == validators'[i]
            IN /\ w.address = v.address
               /\ w.stake = v.stake
               /\ w.weight = v.weight
               /\ w.fibonacci_index = v.fibonacci_index
               /\ last'.op \in EngineOperations =>
                    /\ w.public_key = v.public_key
                    /\ w.is_active = v.is_active
                    /\ w # v => /\ last'.op = "validate_block"
                                /\ last'.ret = TRUE
                                /\ last'.args[2] = v.address
       /\ last'.op \in {"select_leader", "calculate_rewards",
                        "get_validator_rotation_schedule",
                        "generate_consensus_report"} =>
            validators' = validators]_vars

\* C11 witness: a report taken over two validators after a leader was
\* selected, one validator having proposed an accepted block and the other
\* not.
C11_Witness ==
    /\ last.op = "generate_consensus_report"
    /\ Len(validators) = 2
    /\ validators[1].last_validated > 0
    /\ validators[2].last_validated = 0
    /\ round_number > 0

\* C12: once Blockchain.__init__ has finished, the chain holds exactly one
\* block, with index 1, previous_hash '1' and validator_address
\* 'phi_genesis_validator_0', and the six genesis validators are registered.
C12_GenesisBlockCreated ==
    last.op = "Blockchain.__init__" =>
        /\ Len(chain) = 1
        /\ chain[1].index = 1
        /\ chain[1].previous_hash = "1"
        /\ chain[1].validator_address = "phi_genesis_validator_0"
        /\ Len(validators) = Len(genesis_stakes)
        /\ \A i \in 0..(Len(genesis_stakes) - 1) :
             HasAddress(validators, genesis_address(i))

\* x is an element of the list s
InList(x, s) == \E i \in 1..Len(s) : s[i] = x

\* C13: new_transaction returns the index of the block that will hold the
\* transaction: a create_block call either appends a block that holds every
\* transaction that was pending, or appends nothing and leaves them pending;
\* and when the call follows a new_transaction that returned k, an appended
\* block has index k.  No pending transaction is dropped.
C13_TransactionPlacedOrKept ==
    [][last'.op = "create_block" =>
         LET appended == Len(chain') = Len(chain) + 1
         IN /\ \A i \in 1..Len(current_transactions) :
                 IF appended
                 THEN InList(current_transactions[i],
                             chain'[Len(chain')].transactions)
                 ELSE InList(current_transactions[i], current_transactions')
            /\ (appended /\ last.op = "new_transaction" /\ last.ret # None) =>
                 chain'[Len(chain')].index = last.ret[1]]_vars

\* C14: with the registry unchanged, the rotation schedule forecasts the
\* leader: for every k in [0, blocks_ahead), the address the schedule gives
\* for block k is the address of the validator select_leader(k) returns on
\* the same registry.
C14_ScheduleForecastsLeader ==
    last.op = "get_validator_rotation_schedule" =>
        \A k \in 1..Len(last.ret) :
            LET leader == leader_selection(validators, last.ret[k][1]).ret
            IN /\ leader # None
               /\ last.ret[k][2] = leader[1].address

====
